---- MODULE Spec2Model ----
(***************************************************************************)
(* Model of src/Home/app.py: the wind-to-power pipeline that runs when the *)
(* Run button is pressed (geocode, two weather fetches, merge, enrich,     *)
(* summaries, 48-hour window, CSV export) and the pure power curve.        *)
(*                                                                         *)
(* Number representation (the code uses float64; the model is exact on a   *)
(* fixed-point grid):                                                      *)
(*   wind speeds, cut-in, cut-out   numerators over SpeedDen  (1/2 m/s)    *)
(*   Cp                             numerators over CpDen     (1/10)       *)
(*   air density                    numerators over RhoDen    (1/40 kg/m3) *)
(*   pi                             PiNum / PiDen                          *)
(*   watts                          numerators over WattDen                *)
(*   kilowatts, kWh                 whole thousandths (rounded down)       *)
(*   timestamps                     whole hours since a reference instant  *)
(***************************************************************************)
EXTENDS Integers, Sequences, FiniteSets

\* ------------------------------------------------------------ bounds
\* Longest hourly array a weather response carries in the model.
MaxLen == 2

\* ------------------------------------------------------------ number grid
SpeedDen == 2
CpDen == 10
RhoDen == 40
PiNum == 22
PiDen == 7
WattsPerKw == 1000

\* Defaults of turbine_power_from_wind (line 78-79), on the grid above.
DefaultAirDensity == 49
DefaultCutIn == 7
DefaultCutOut == 50
DefaultRatedWind == 24

\* Reference height passed to adjust_height (line 146) and the window (line 171).
RefHeight == 10
WindowHours == 48

\* forecast_days (line 96).
forecast_days == 7

\* Default coordinates (line 105), rounded to whole degrees.
default_lat == 17
default_lon == 78

Range(s) == {s[i] : i \in DOMAIN s}

Min(a, b) == IF a <= b THEN a ELSE b

Cube(x) == x * x * x

\* ------------------------------------------------------------ power curve
\* A = np.pi * (rotor_diameter / 2.0) ** 2, as ANum / ADen.
ANum(rotor_diameter) == PiNum * rotor_diameter * rotor_diameter
ADen == PiDen * 4

\* Denominator of every watt value: 0.5 * air_density * A * cp * v ** 3.
WattDen == 2 * RhoDen * ADen * CpDen * Cube(SpeedDen)

\* P_watt = 0.5 * air_density * A * cp * (v ** 3)   (numerator over WattDen)
IdealPower(v, rotor_diameter, cp, air_density) ==
    air_density * ANum(rotor_diameter) * cp * Cube(v)

\* Mutant of ZeroOutside: the cut-out side of the mask is lost.
ZeroOutside_low_only(v, cut_in, cut_out, P_watt) ==
    IF v < cut_in THEN 0 ELSE P_watt

\* P_watt = np.where((v < cut_in) | (v > cut_out), 0.0, P_watt)
ZeroOutside(v, cut_in, cut_out, P_watt) ==
    IF (v < cut_in) \/ (v > cut_out) THEN 0 ELSE P_watt

\* Mutant of ClampRated: the rated-power ceiling is not applied.
ClampRated_none(P_watt, rated_power_kw) == P_watt

\* P_watt = np.minimum(P_watt, rated_power_kw * 1000.0)
ClampRated(P_watt, rated_power_kw) ==
    Min(P_watt, rated_power_kw * WattsPerKw * WattDen)

\* return P_watt / 1000.0   (kW in whole thousandths, rounded down)
ToKw(P_watt) == P_watt \div WattDen

\* turbine_power_from_wind (lines 78-84); rated_wind is accepted and unused.
turbine_power_from_wind(v, rotor_diameter, cp, air_density, rated_power_kw, cut_in, cut_out, rated_wind) ==
    LET P0 == IdealPower(v, rotor_diameter, cp, air_density)
        P1 == ZeroOutside(v, cut_in, cut_out, P0)
        P2 == ClampRated(P1, rated_power_kw)
    IN  ToKw(P2)

\* ------------------------------------------------------------ height
\* factor = (z_to / z_from) ** alpha, as a numerator over SpeedDen, tabulated
\* for the two (hub height, alpha) pairs of SidebarSettings: equal heights
\* give exactly 1; (180/10)**0.14 = 1.4988 is 3/2 on the grid.  alpha is in
\* hundredths.
ShearFactor(z_from, z_to, alpha) ==
    IF z_to = z_from THEN SpeedDen
    ELSE IF z_to = 18 * z_from /\ alpha = 14 THEN 3
    ELSE SpeedDen

\* return wind_series * factor   (one element)
adjust_height(wind, z_from, z_to, alpha) ==
    (wind * ShearFactor(z_from, z_to, alpha)) \div SpeedDen

\* ------------------------------------------------------------ data frames
\* A pandas DataFrame: the column labels in order, the index labels, and one
\* row (a function from column label to value) per index entry.
VARIABLES pc, settings, lat, lon, requests, last_json, hist_df, fc_df, df,
          metrics, now_utc, next48, csv, out, pw

vars == <<pc, settings, lat, lon, requests, last_json, hist_df, fc_df, df,
          metrics, now_utc, next48, csv, out, pw>>

NaN == "NaN"

\* pd.DataFrame()
EmptyFrame == [cols |-> <<>>, index |-> <<>>, rows |-> <<>>]

\* DataFrame.empty: some axis has length 0.
IsEmpty(f) == Len(f.cols) = 0 \/ Len(f.rows) = 0

\* dict.get(key, []) on a JSON object whose key may be absent: an absent
\* value is <<>>, a present one is <<value>>.
GetOr(opt, dflt) == IF opt = <<>> THEN dflt ELSE opt[1]

\* pd.DataFrame({"time_utc": ..., "wind_m_s": ...}) raises ValueError when
\* the two arrays differ in length.
ArraysMismatch(times, ws) == Len(times) # Len(ws)

FrameFromArrays(times, ws) ==
    [cols  |-> <<"time_utc", "wind_m_s">>,
     index |-> [i \in 1..Len(times) |-> i - 1],
     rows  |-> [i \in 1..Len(times) |->
                  [time_utc |-> times[i], wind_m_s |-> ws[i]]]]

\* frame[name] = values: an existing column is overwritten in place, a new
\* one is appended after the existing columns.
SetColumn(f, name, values) ==
    [cols  |-> IF name \in Range(f.cols) THEN f.cols ELSE Append(f.cols, name),
     index |-> f.index,
     rows  |-> [i \in 1..Len(f.rows) |->
                  [c \in DOMAIN f.rows[i] \cup {name} |->
                      IF c = name THEN values[i] ELSE f.rows[i][c]]]]

\* frame[name] = scalar
SetScalar(f, name, value) ==
    SetColumn(f, name, [i \in 1..Len(f.rows) |-> value])

\* frame[name] as a sequence
Column(f, name) == [i \in 1..Len(f.rows) |-> f.rows[i][name]]

\* Column labels of pd.concat: those of a, then those of b not yet seen.
UnionCols(a, b) == a \o SelectSeq(b, LAMBDA c : c \notin Range(a))

Reindex(r, cols) ==
    [c \in Range(cols) |-> IF c \in DOMAIN r THEN r[c] ELSE NaN]

\* Mutant of Concat: a row of b whose timestamp already occurs in a is dropped.
Concat_dedup(a, b) ==
    LET cols == UnionCols(a.cols, b.cols)
        kept == SelectSeq(b.rows, LAMBDA r :
                    \A i \in 1..Len(a.rows) : a.rows[i]["time_utc"] # r["time_utc"])
        rows == a.rows \o kept
    IN  [cols  |-> cols,
         index |-> [i \in 1..Len(rows) |-> i - 1],
         rows  |-> [i \in 1..Len(rows) |-> Reindex(rows[i], cols)]]

\* pd.concat([a, b], ignore_index=True)
Concat(a, b) ==
    LET cols == UnionCols(a.cols, b.cols)
        rows == a.rows \o b.rows
    IN  [cols  |-> cols,
         index |-> [i \in 1..Len(rows) |-> i - 1],
         rows  |-> [i \in 1..Len(rows) |-> Reindex(rows[i], cols)]]

\* The row orders sort_values may produce: non-decreasing in the key; the
\* default sort kind is not stable, so rows with equal keys come in any order.
RECURSIVE Orders(_, _, _)
Orders(f, by, left) ==
    IF left = {} THEN {<<>>}
    ELSE LET firsts == {i \in left :
                          \A j \in left : f.rows[i][by] <= f.rows[j][by]}
         IN  UNION {{<<i>> \o o : o \in Orders(f, by, left \ {i})} : i \in firsts}

Permute(f, o) ==
    [cols  |-> f.cols,
     index |-> [k \in 1..Len(o) |-> f.index[o[k]]],
     rows  |-> [k \in 1..Len(o) |-> f.rows[o[k]]]]

\* frame.sort_values(by): the set of possible results.
SortValues(f, by) == {Permute(f, o) : o \in Orders(f, by, DOMAIN f.rows)}

\* frame.reset_index(drop=True)
ResetIndex(f) ==
    [cols |-> f.cols,
     index |-> [i \in 1..Len(f.rows) |-> i - 1],
     rows |-> f.rows]

\* The positions at which a boolean mask is true, in order.
RECURSIVE MaskPositions(_, _)
MaskPositions(mask, i) ==
    IF i > Len(mask) THEN <<>>
    ELSE (IF mask[i] THEN <<i>> ELSE <<>>) \o MaskPositions(mask, i + 1)

\* frame[mask]: the selected rows keep their index labels.
Filter(f, mask) == Permute(f, MaskPositions(mask, 1))

RECURSIVE SumSeq(_)
SumSeq(s) == IF s = <<>> THEN 0 ELSE s[1] + SumSeq(Tail(s))

\* Series.sum(): 0 for an empty series.
SeriesSum(s) == SumSeq(s)

\* Series.mean() of a non-empty series, rounded down on the grid.
SeriesMean(s) == SumSeq(s) \div Len(s)

\* Mutant of ToCsv: to_csv() without index=False writes the index first.
ToCsv_with_index(f) ==
    [header |-> <<"">> \o f.cols,
     lines  |-> [i \in 1..Len(f.rows) |->
                   <<f.index[i]>> \o [k \in 1..Len(f.cols) |-> f.rows[i][f.cols[k]]]]]

\* frame.to_csv(index=False): a header line with the column labels in frame
\* order, then one line per row with the cells in the same order.
ToCsv(f) ==
    [header |-> f.cols,
     lines  |-> [i \in 1..Len(f.rows) |->
                   [k \in 1..Len(f.cols) |-> f.rows[i][f.cols[k]]]]]

\* ------------------------------------------------------------ inputs
\* Sidebar widgets (lines 90-95): each number_input / slider keeps its value
\* inside [min, max].  cp is in tenths, alpha in hundredths.
InSidebarRange(s) ==
    /\ s.rotor_diameter \in 1..150
    /\ s.rated_power_kw \in 1..10000
    /\ s.hub_height \in 10..200
    /\ s.cp \in 1..5
    /\ s.alpha \in 7..25
    /\ s.history_days \in 1..30

SidebarSettings ==
    {s \in {[rotor_diameter |-> 2, rated_power_kw |-> 1, hub_height |-> 10,
             cp |-> 3, alpha |-> 14, history_days |-> 14],
            [rotor_diameter |-> 2, rated_power_kw |-> 2, hub_height |-> 180,
             cp |-> 3, alpha |-> 14, history_days |-> 14],
            [rotor_diameter |-> 1, rated_power_kw |-> 1, hub_height |-> 10,
             cp |-> 1, alpha |-> 14, history_days |-> 14]} : InSidebarRange(s)}

\* The text input of line 117, as a sequence of characters.
PlaceInputs == {<<>>, <<" ">>, <<"H", "y", "d">>}

\* str.strip()
RECURSIVE LStrip(_)
LStrip(t) == IF t # <<>> /\ t[1] = " " THEN LStrip(Tail(t)) ELSE t

RECURSIVE RStrip(_)
RStrip(t) ==
    IF t # <<>> /\ t[Len(t)] = " " THEN RStrip(SubSeq(t, 1, Len(t) - 1)) ELSE t

Strip(t) == RStrip(LStrip(t))

\* data.get("results", []) of the geocoding service (line 54).
GeoResults ==
    {<<>>,
     <<[name |-> "Hyderabad", country |-> "India", latitude |-> 17, longitude |-> 78]>>,
     <<[name |-> "Hyderabad", country |-> "Pakistan", latitude |-> 25, longitude |-> 68],
       [name |-> "Hyderabad", country |-> "India", latitude |-> 17, longitude |-> 78]>>}

\* Hourly timestamps and 10 m wind speeds a weather response may carry.
Times == {0, 1, 49}
Winds == {6, 20, 34}

\* The service lists the hours of a range in increasing order.
TimeArrays ==
    {q \in UNION {[1..n -> Times] : n \in 0..MaxLen} :
        \A i \in 1..(Len(q) - 1) : q[i] < q[i + 1]}
WindArrays == UNION {[1..n -> Winds] : n \in 0..MaxLen}

\* r.json() of the weather service: the "hourly" object, its "time" array
\* and its "windspeed_10m" array may each be absent (<<>>) or present
\* (<<value>>); two present arrays have one value per timestamp.
HourlyObjects ==
    {h \in [time : {<<>>} \cup {<<a>> : a \in TimeArrays},
            windspeed_10m : {<<>>} \cup {<<a>> : a \in WindArrays}] :
        (h.time # <<>> /\ h.windspeed_10m # <<>>)
            => Len(h.time[1]) = Len(h.windspeed_10m[1])}

WeatherJson ==
    {[hourly |-> <<>>]} \cup {[hourly |-> <<h>>] : h \in HourlyObjects}

\* pd.Timestamp.now(tz="UTC") (line 170), in hours.
Nows == {0, 1, 2}

\* ------------------------------------------------------------ fetch
\* {} : a JSON object with neither array.
EmptyHourly == [time |-> <<>>, windspeed_10m |-> <<>>]

\* hourly.get("time", []) and hourly.get("windspeed_10m", []) (lines 67-69)
TimesOf(json) == GetOr(GetOr(json.hourly, EmptyHourly).time, <<>>)
ValuesOf(json) == GetOr(GetOr(json.hourly, EmptyHourly).windspeed_10m, <<>>)

\* fetch_wind_data raises on a transported response: "if not times" returns
\* first, otherwise the DataFrame constructor rejects arrays of unequal length.
FetchRaises(json) ==
    TimesOf(json) # <<>> /\ ArraysMismatch(TimesOf(json), ValuesOf(json))

\* The frame fetch_wind_data returns when it does not raise.
fetch_wind_data(json) ==
    IF TimesOf(json) = <<>> THEN EmptyFrame
    ELSE FrameFromArrays(TimesOf(json), ValuesOf(json))

\* The outbound requests; dates are day offsets from today_utc.
GeocodeRequest(place) == [url |-> "GEOCODE_URL", name |-> place, count |-> 5]

FetchRequest(latitude, longitude, start_date, end_date) ==
    [url |-> "FORECAST_URL", latitude |-> latitude, longitude |-> longitude,
     start_date |-> start_date, end_date |-> end_date]

\* ------------------------------------------------------------ pipeline
\* Mutant of BothEmpty: "or" in place of "and".
BothEmpty_either(h, f) == IsEmpty(h) \/ IsEmpty(f)

\* hist_df.empty and fc_df.empty (line 139)
BothEmpty(h, f) == IsEmpty(h) /\ IsEmpty(f)

\* if not frame.empty: frame["source"] = tag (lines 142-143)
Tagged(f, tag) == IF ~IsEmpty(f) THEN SetScalar(f, "source", tag) ELSE f

\* pd.concat(...).sort_values("time_utc").reset_index(drop=True) (line 145):
\* the set of frames the merge may produce.
Merge(h, f) == {ResetIndex(sorted) : sorted \in SortValues(Concat(h, f), "time_utc")}

\* Lines 146-148.
Enrich(d, s) ==
    LET d1 == SetColumn(d, "wind_hub_m_s",
                  [i \in 1..Len(d.rows) |->
                      adjust_height(d.rows[i]["wind_m_s"], RefHeight,
                                    s.hub_height, s.alpha)])
        d2 == SetColumn(d1, "power_kW",
                  [i \in 1..Len(d1.rows) |->
                      turbine_power_from_wind(d1.rows[i]["wind_hub_m_s"],
                          s.rotor_diameter, s.cp, DefaultAirDensity,
                          s.rated_power_kw, DefaultCutIn, DefaultCutOut,
                          DefaultRatedWind)])
    IN  SetColumn(d2, "energy_kWh", Column(d2, "power_kW"))

\* Mutant of ForecastRows: every row is counted as forecast.
ForecastRows_all(d) == d

\* df[df["source"]=="forecast"] (line 151)
ForecastRows(d) ==
    Filter(d, [i \in 1..Len(d.rows) |-> d.rows[i]["source"] = "forecast"])

\* total_energy_next7 (line 151)
TotalEnergyNext7(d) == SeriesSum(Column(ForecastRows(d), "energy_kWh"))

\* avg_cf (line 152), in thousandths
AvgCf(d, rated_power_kw) ==
    IF rated_power_kw > 0
    THEN SeriesMean(Column(d, "power_kW")) \div rated_power_kw
    ELSE 0

\* Mutant of InWindow: the upper bound is exclusive.
InWindow_open(t, now) == t >= now /\ t < now + WindowHours

\* (time_utc >= now_utc) & (time_utc <= now_utc + 48 h) (line 171)
InWindow(t, now) == t >= now /\ t <= now + WindowHours

\* next48 (line 171)
Next48(d, now) ==
    Filter(d, [i \in 1..Len(d.rows) |-> InWindow(d.rows[i]["time_utc"], now)])

\* Mutant of ReportError: the exception is swallowed without a report.
ReportError_silent(o) == o

\* except Exception as e: st.error(...) (lines 185-186)
ReportError(o) == Append(o, "error")

\* What the else branch renders, in order (lines 154-183).
Rendered(window) ==
    <<"metric_energy", "metric_cf", "metric_wind", "chart_wind", "chart_power",
      "subheader_48h">>
    \o (IF ~IsEmpty(window) THEN <<"table_48h", "chart_48h">> ELSE <<>>)
    \o <<"download_csv">>

PwIdle ==
    [stage |-> "idle", v |-> 0, rotor_diameter |-> 1, cp |-> 1, air_density |-> 1,
     rated_power_kw |-> 1, cut_in |-> 0, cut_out |-> 1, power_kw |-> 0]

\* The script up to the Run button: nothing fetched, nothing rendered.
Fresh(s) ==
    /\ pc = "idle"
    /\ settings = s
    /\ lat = default_lat
    /\ lon = default_lon
    /\ requests = <<>>
    /\ last_json = <<>>
    /\ hist_df = EmptyFrame
    /\ fc_df = EmptyFrame
    /\ df = EmptyFrame
    /\ metrics = <<>>
    /\ now_utc = 0
    /\ next48 = EmptyFrame
    /\ csv = <<>>
    /\ out = <<>>

Init == (\E s \in SidebarSettings : Fresh(s)) /\ pw = PwIdle

\* The handler caught an exception: one st.error, the run ends.
Fail ==
    /\ pc' = "failed"
    /\ out' = ReportError(out)

\* Lines 127-133.
Geocode ==
    /\ pc = "idle"
    /\ \E place \in PlaceInputs :
         IF Strip(place) = <<>>
         THEN /\ pc' = "geocoded"
              /\ UNCHANGED <<lat, lon, requests, out>>
         ELSE /\ requests' = Append(requests, GeocodeRequest(place))
              /\ \/ Fail /\ UNCHANGED <<lat, lon>>
                 \/ \E results \in GeoResults :
                      /\ pc' = "geocoded"
                      /\ IF results # <<>>
                         THEN /\ lat' = results[1].latitude
                              /\ lon' = results[1].longitude
                              /\ out' = Append(out, "location")
                         ELSE UNCHANGED <<lat, lon, out>>
    /\ UNCHANGED <<settings, last_json, hist_df, fc_df, df, metrics, now_utc,
                   next48, csv, pw>>

\* Line 136.
FetchHistory ==
    /\ pc = "geocoded"
    /\ requests' = Append(requests,
                      FetchRequest(lat, lon, 0 - settings.history_days, 0 - 1))
    /\ \/ Fail /\ last_json' = <<>> /\ UNCHANGED hist_df
       \/ \E json \in WeatherJson :
            /\ last_json' = <<json>>
            /\ IF FetchRaises(json)
               THEN Fail /\ UNCHANGED hist_df
               ELSE /\ hist_df' = fetch_wind_data(json)
                    /\ pc' = "fetched_history"
                    /\ UNCHANGED out
    /\ UNCHANGED <<settings, lat, lon, fc_df, df, metrics, now_utc, next48, csv, pw>>

\* Line 137.
FetchForecast ==
    /\ pc = "fetched_history"
    /\ requests' = Append(requests, FetchRequest(lat, lon, 0, forecast_days))
    /\ \/ Fail /\ last_json' = <<>> /\ UNCHANGED fc_df
       \/ \E json \in WeatherJson :
            /\ last_json' = <<json>>
            /\ IF FetchRaises(json)
               THEN Fail /\ UNCHANGED fc_df
               ELSE /\ fc_df' = fetch_wind_data(json)
                    /\ pc' = "fetched_forecast"
                    /\ UNCHANGED out
    /\ UNCHANGED <<settings, lat, lon, hist_df, df, metrics, now_utc, next48, csv, pw>>

\* Lines 139-183.
Process ==
    /\ pc = "fetched_forecast"
    /\ pc' = "done"
    /\ last_json' = <<>>   \* the fetches' responses are no longer live
    /\ IF BothEmpty(hist_df, fc_df)
       THEN /\ out' = Append(out, "error_no_data")
            /\ UNCHANGED <<hist_df, fc_df, df, metrics, now_utc, next48, csv>>
       ELSE /\ hist_df' = Tagged(hist_df, "history")
            /\ fc_df' = Tagged(fc_df, "forecast")
            /\ \E merged \in Merge(hist_df', fc_df') :
                 /\ df' = Enrich(merged, settings)
                 /\ metrics' = <<[total_energy_next7 |-> TotalEnergyNext7(df'),
                                  avg_cf |-> AvgCf(df', settings.rated_power_kw),
                                  mean_hub |-> SeriesMean(Column(df', "wind_hub_m_s"))]>>
                 /\ \E now \in Nows :
                      /\ now_utc' = now
                      /\ next48' = Next48(df', now)
                      /\ out' = out \o Rendered(next48')
                 /\ csv' = <<ToCsv(df')>>
    /\ UNCHANGED <<settings, lat, lon, requests, pw>>

\* The script runs again from the top with the widgets' current values.
Rerun ==
    /\ pc \in {"done", "failed"}
    /\ \E s \in SidebarSettings :
         /\ pc' = "idle"
         /\ settings' = s
         /\ lat' = default_lat
         /\ lon' = default_lon
         /\ requests' = <<>>
         /\ last_json' = <<>>
         /\ hist_df' = EmptyFrame
         /\ fc_df' = EmptyFrame
         /\ df' = EmptyFrame
         /\ metrics' = <<>>
         /\ now_utc' = 0
         /\ next48' = EmptyFrame
         /\ csv' = <<>>
         /\ out' = <<>>
    /\ UNCHANGED pw

Next == Geocode \/ FetchHistory \/ FetchForecast \/ Process \/ Rerun

Spec == Init /\ [][Next]_vars

\* ------------------------------------------------------------ power curve alone
\* turbine_power_from_wind applied to one hub-height wind speed, negative
\* speeds included, under configurations that satisfy the TurbineConfig
\* constraints (rotor > 0, rated > 0, 0 < Cp <= 1, density > 0,
\* 0 <= cut_in < cut_out).
PowerConfigs ==
    {[rotor_diameter |-> 2, cp |-> 3, air_density |-> 49, rated_power_kw |-> 1,
      cut_in |-> 7, cut_out |-> 50],
     [rotor_diameter |-> 1, cp |-> 10, air_density |-> 49, rated_power_kw |-> 1,
      cut_in |-> 0, cut_out |-> 50],
     [rotor_diameter |-> 2, cp |-> 4, air_density |-> 40, rated_power_kw |-> 2,
      cut_in |-> 7, cut_out |-> 20],
     [rotor_diameter |-> 1, cp |-> 1, air_density |-> 60, rated_power_kw |-> 3,
      cut_in |-> 6, cut_out |-> 7]}

PowerSpeeds == (0 - 6)..51

PowerInit ==
    /\ Fresh(CHOOSE s \in SidebarSettings : TRUE)
    /\ \E c \in PowerConfigs, v \in PowerSpeeds :
         pw = [stage |-> "input", v |-> v, rotor_diameter |-> c.rotor_diameter,
               cp |-> c.cp, air_density |-> c.air_density,
               rated_power_kw |-> c.rated_power_kw, cut_in |-> c.cut_in,
               cut_out |-> c.cut_out, power_kw |-> 0]

EvalPower ==
    /\ pw.stage = "input"
    /\ pw' = [pw EXCEPT !.stage = "result",
                        !.power_kw = turbine_power_from_wind(pw.v,
                            pw.rotor_diameter, pw.cp, pw.air_density,
                            pw.rated_power_kw, pw.cut_in, pw.cut_out,
                            DefaultRatedWind)]
    /\ UNCHANGED <<pc, settings, lat, lon, requests, last_json, hist_df, fc_df,
                   df, metrics, now_utc, next48, csv, out>>

PowerNext == EvalPower

PowerSpec == PowerInit /\ [][PowerNext]_vars

\* ------------------------------------------------------------ claims
ProducedOutput == pc = "done" /\ ~IsEmpty(df)

\* C1: for every wind speed (negative, zero or positive) and every valid
\* turbine configuration, the returned power is at least 0 and at most the
\* rated power (power in thousandths of a kW).
C1_PowerBounded ==
    pw.stage = "result" =>
        /\ pw.power_kw >= 0
        /\ pw.power_kw <= pw.rated_power_kw * WattsPerKw

\* C1 witness: a speed inside the operating range whose cubic power exceeds
\* the rated power, so the result sits exactly on the ceiling.
C1_Witness ==
    /\ pw.stage = "result"
    /\ pw.v >= pw.cut_in /\ pw.v <= pw.cut_out
    /\ IdealPower(pw.v, pw.rotor_diameter, pw.cp, pw.air_density)
          > pw.rated_power_kw * WattsPerKw * WattDen
    /\ pw.power_kw = pw.rated_power_kw * WattsPerKw

\* C2: a wind speed strictly below cut-in (every negative speed included) or
\* strictly above cut-out yields exactly 0 kW.
C2_ZeroOutsideRange ==
    (pw.stage = "result" /\ (pw.v < pw.cut_in \/ pw.v > pw.cut_out))
        => pw.power_kw = 0

\* C2 witness: a speed above cut-out whose cubic term is far above zero.
C2_Witness ==
    /\ pw.stage = "result"
    /\ pw.v > pw.cut_out
    /\ IdealPower(pw.v, pw.rotor_diameter, pw.cp, pw.air_density) > WattDen
    /\ pw.power_kw = 0

\* The rows a frame contributes to the merge, as (timestamp, wind, tag).
TaggedRows(f, tag) ==
    [i \in 1..Len(f.rows) |->
        <<f.rows[i]["time_utc"], f.rows[i]["wind_m_s"], tag>>]

MergedRows(d) ==
    [i \in 1..Len(d.rows) |->
        <<d.rows[i]["time_utc"], d.rows[i]["wind_m_s"], d.rows[i]["source"]>>]

\* How many times x occurs in the sequence q.
Count(q, x) == Cardinality({i \in DOMAIN q : q[i] = x})

NoDownstreamOutput ==
    /\ df = EmptyFrame
    /\ metrics = <<>>
    /\ next48 = EmptyFrame
    /\ csv = <<>>
    /\ Range(out) \subseteq {"location", "error_no_data", "error"}

\* C3: with both series empty the run reports the no-data condition and
\* produces no enriched record, metric, window or export; with exactly one
\* series empty the run proceeds and its output is made of the rows of the
\* non-empty side only.
C3_NoDataOrProceed ==
    pc = "done" =>
        /\ (IsEmpty(hist_df) /\ IsEmpty(fc_df)) =>
              /\ out # <<>> /\ out[Len(out)] = "error_no_data"
              /\ NoDownstreamOutput
        /\ (IsEmpty(hist_df) /\ ~IsEmpty(fc_df)) =>
              /\ "error_no_data" \notin Range(out)
              /\ metrics # <<>> /\ csv # <<>>
              /\ "download_csv" \in Range(out)
              /\ MergedRows(df) = TaggedRows(fc_df, "forecast")
        /\ (~IsEmpty(hist_df) /\ IsEmpty(fc_df)) =>
              /\ "error_no_data" \notin Range(out)
              /\ metrics # <<>> /\ csv # <<>>
              /\ "download_csv" \in Range(out)
              /\ MergedRows(df) = TaggedRows(hist_df, "history")

\* C3 witness: a finished run whose history is empty and whose forecast has
\* two rows, both of which reached the export.
C3_Witness ==
    /\ pc = "done"
    /\ IsEmpty(hist_df) /\ Len(fc_df.rows) = 2
    /\ Len(df.rows) = 2
    /\ "download_csv" \in Range(out)

\* C4: the 48-hour window holds exactly the merged rows with
\* now <= t <= now + 48 h, both bounds included, and an empty window is not
\* an error.
C4_WindowExact ==
    ProducedOutput =>
        LET inside == {i \in DOMAIN df.rows :
                          /\ df.rows[i]["time_utc"] >= now_utc
                          /\ df.rows[i]["time_utc"] <= now_utc + WindowHours}
        IN  /\ \A k \in DOMAIN next48.rows :
                  /\ next48.rows[k]["time_utc"] >= now_utc
                  /\ next48.rows[k]["time_utc"] <= now_utc + WindowHours
            /\ Len(next48.rows) = Cardinality(inside)
            /\ \A i \in inside : \E k \in DOMAIN next48.rows :
                  next48.rows[k] = df.rows[i] /\ next48.index[k] = df.index[i]
            /\ "error" \notin Range(out)
            /\ (inside = {}) => Len(next48.rows) = 0

\* C4 witness: rows exactly at now and at now + 48 h are in the window while
\* an earlier row is left out.
C4_Witness ==
    /\ ProducedOutput
    /\ \E i \in DOMAIN df.rows : df.rows[i]["time_utc"] < now_utc
    /\ \E k \in DOMAIN next48.rows : next48.rows[k]["time_utc"] = now_utc
    /\ \E k \in DOMAIN next48.rows :
          next48.rows[k]["time_utc"] = now_utc + WindowHours
    /\ Len(next48.rows) = 2

\* C5: the merged series has exactly the history rows plus the forecast rows
\* (same count, each with its source tag), in non-decreasing timestamp order
\* with index 0..n-1; rows of the two sides that share a timestamp are both
\* kept.
C5_MergeKeepsAllRows ==
    ProducedOutput =>
        LET expected == TaggedRows(hist_df, "history") \o TaggedRows(fc_df, "forecast")
            got == MergedRows(df)
        IN  /\ Len(got) = Len(hist_df.rows) + Len(fc_df.rows)
            /\ \A x \in Range(expected) \cup Range(got) :
                  Count(got, x) = Count(expected, x)
            /\ \A i \in 1..(Len(got) - 1) : got[i][1] <= got[i + 1][1]
            /\ \A i \in DOMAIN df.index : df.index[i] = i - 1

\* C5 witness: a history row and a forecast row carry the same timestamp and
\* the merged series holds both.
C5_Witness ==
    /\ ProducedOutput
    /\ \E i, j \in DOMAIN df.rows :
          /\ df.rows[i]["time_utc"] = df.rows[j]["time_utc"]
          /\ df.rows[i]["source"] = "history"
          /\ df.rows[j]["source"] = "forecast"
    /\ Len(df.rows) = 4

\* C6: the total forecast energy is the sum of energy_kwh over the rows
\* tagged forecast (0 without forecast rows); the capacity factor is the mean
\* power over all merged rows divided by the rated power.
C6_Summaries ==
    ProducedOutput =>
        LET n == Len(df.rows)
            fcEnergy == [i \in 1..n |->
                            IF df.rows[i]["source"] = "forecast"
                            THEN df.rows[i]["energy_kWh"] ELSE 0]
            allPower == [i \in 1..n |-> df.rows[i]["power_kW"]]
        IN  /\ metrics # <<>>
            /\ metrics[1].total_energy_next7 = SumSeq(fcEnergy)
            /\ metrics[1].avg_cf = (SumSeq(allPower) \div n) \div settings.rated_power_kw
            /\ IsEmpty(fc_df) => metrics[1].total_energy_next7 = 0

\* C6 witness: history rows with power and no forecast rows: the energy
\* total is 0 while the capacity factor is positive.
C6_Witness ==
    /\ ProducedOutput
    /\ ~IsEmpty(hist_df) /\ IsEmpty(fc_df)
    /\ metrics[1].total_energy_next7 = 0
    /\ metrics[1].avg_cf > 0

C9_MissingArrayIsNoData ==
    (/\ last_json # <<>>
     /\ \/ last_json[1].hourly = <<>>
        \/ last_json[1].hourly[1].time = <<>>
        \/ last_json[1].hourly[1].windspeed_10m = <<>>)
        => /\ pc # "failed"
           /\ pc = "fetched_history" => IsEmpty(hist_df)
           /\ pc = "fetched_forecast" => IsEmpty(fc_df)

\* C10 as claimed: the export's columns are timestamp, reference wind, hub
\* wind, power, energy, source, one line per merged row.
C10_ClaimedColumnOrder ==
    ProducedOutput =>
        /\ csv # <<>>
        /\ csv[1].header = <<"time_utc", "wind_m_s", "wind_hub_m_s", "power_kW",
                             "energy_kWh", "source">>
        /\ Len(csv[1].lines) = Len(df.rows)

\* C10 amended: the export has one line per merged row and its columns are,
\* in this fixed order whichever side is empty: timestamp, reference-height
\* wind speed, source, hub-height wind speed, power, energy.
C10_ExportColumns ==
    ProducedOutput =>
        /\ csv # <<>>
        /\ csv[1].header = <<"time_utc", "wind_m_s", "source", "wind_hub_m_s",
                             "power_kW", "energy_kWh">>
        /\ Len(csv[1].lines) = Len(df.rows)
        /\ \A i \in DOMAIN df.rows :
              csv[1].lines[i] = <<df.rows[i]["time_utc"], df.rows[i]["wind_m_s"],
                                  df.rows[i]["source"], df.rows[i]["wind_hub_m_s"],
                                  df.rows[i]["power_kW"], df.rows[i]["energy_kWh"]>>

\* C10 witness: an export of a run whose forecast series is empty.
C10_Witness ==
    /\ ProducedOutput
    /\ IsEmpty(fc_df) /\ Len(hist_df.rows) = 2
    /\ csv # <<>> /\ Len(csv[1].lines) = 2
    /\ "download_csv" \in Range(out)

====
